---- MODULE Spec2Model ----
(***************************************************************************)
(* A model of ValidationManager (validation_interface.py): the loading of  *)
(* the dataset, the shuffled presentation order, the in-memory completion  *)
(* state, the session file and its read-modify-write, and resuming a       *)
(* session from the file.                                                  *)
(*                                                                         *)
(* Conventions.                                                            *)
(*  - Python None is the empty tuple <<>>; an optional value v is <<v>>.   *)
(*  - A transition id f"{group}_{i}" is the pair <<group, i>>: the         *)
(*    formatting is injective (i is a decimal without '_'), so the pair    *)
(*    identifies the string.                                               *)
(*  - datetime.now() is the logical clock `now`: the number of             *)
(*    save_validation calls made so far.                                   *)
(*  - The session file is [status, json]: status "absent" (no file),       *)
(*    "json" (a complete document, held in json) or "partial" (truncated   *)
(*    by open(..., 'w') and not completely written).                       *)
(*  - Of a session document the fields session_id, random_seed,            *)
(*    start_time, source_data_file, total_transitions, validations,        *)
(*    last_updated and completed_transitions are held; session_name,       *)
(*    metadata and error_categories are written once and never read back   *)
(*    into a decision, progress_percentage is a function of the count and  *)
(*    the total.  Of a validation the transition_id and the timestamp are  *)
(*    held; the reviewer's answers are carried through unread.             *)
(*  - A JSON value of an action parameter is tagged with its type:         *)
(*    [t |-> "str" | "num" | "list" | "dict", v |-> ...]; a dict is the    *)
(*    sequence of its items [k, v] in insertion order.                     *)
(***************************************************************************)
EXTENDS Integers, Sequences, FiniteSets, TLC

VARIABLES
    phase,                  \* "start" | "serving" | "dead" (no process), and "loaded" | "ordered" in SpecPure, SpecNames
    data,                   \* the parsed content of data_file
    random_seed,            \* self.random_seed: <<>> or <<s>>
    session_id,             \* self.session_id: <<>> before construction, <<timestamp>> after
    transitions,            \* self.transitions
    current_transitions,    \* self.current_transitions
    completed_transitions,  \* self.completed_transitions
    session_validations,    \* self.session_validations
    session_file,           \* the file at self.session_file
    now,                    \* logical clock
    last,                   \* the last operation, its argument and its outcome ("again": a skip of a completed id)
    material_lookup,        \* self.material_lookup
    shown,                  \* <<the transition get_next_transition returned>> when the last request was one
    created,                \* history: <<[order, seed]>> of the session __init__ made, else <<>>
    judged,                 \* history: ids for which save_validation returned normally
    answers                 \* history: answers given in SpecReview

vars == <<phase, data, random_seed, session_id, transitions, current_transitions,
          completed_transitions, session_validations, session_file, now, last,
          material_lookup, shown, created, judged, answers>>

----------------------------------------------------------------------------
(* Bounds *)

MaxPreds == 2        \* predictions per comparison group
MaxSeed == 1         \* seeds are 0..MaxSeed
MaxJudgments == 2    \* save_validation calls per behaviour
MaxDepth == 2        \* nesting depth of an action parameter value

None == <<>>
NoTask == <<>>
BogusId == <<"unknown", 0>>

Range(s) == {s[i] : i \in 1..Len(s)}

RECURSIVE Concat(_)
Concat(ss) == IF ss = <<>> THEN <<>> ELSE Head(ss) \o Concat(Tail(ss))

----------------------------------------------------------------------------
(* Datasets *)

\* prediction.get('error'): absent (None), present and falsy (""), present and truthy
ErrorValues == {"absent", "", "timeout"}
Truthy(e) == e \notin {"absent", ""}

Prediction(g, i, e) == [error |-> e, output |-> <<g, i>>]

SeqsUpTo(S, n) == UNION {[1..k -> S] : k \in 0..n}

\* a comparison group with id g; tag makes its predictions differ from those of
\* every other group of the dataset
Comparison(g, tag, errs) ==
    [transition_id |-> g,
     action |-> [type |-> tag],
     input_materials |-> <<>>,
     input_observations |-> <<>>,
     predictions |-> [i \in 1..Len(errs) |-> Prediction(tag, i - 1, errs[i])]]

FlatTask(g, i) ==
    [transition_id |-> <<g, i>>, original_transition_id |-> g, prediction_index |-> i,
     action |-> [type |-> g], input_materials |-> <<>>, input_observations |-> <<>>,
     prediction |-> Prediction(g, i, "absent")]

ComparisonData(cs) == [keys |-> {"comparisons"}, comparisons |-> cs, transitions |-> <<>>]
FlatData(ts) == [keys |-> {"transitions"}, comparisons |-> <<>>, transitions |-> ts]
OtherData == [keys |-> {}, comparisons |-> <<>>, transitions |-> <<>>]

\* the datasets of the session specification: two groups, three good predictions
\* and an erroring one between them; one group whose only good prediction has an
\* empty error value; a flat list of two transitions; a document with neither key
SessionDatasets ==
    {ComparisonData(<<Comparison("g1", "a", <<"absent", "timeout", "absent">>),
                      Comparison("g2", "b", <<"absent">>)>>),
     ComparisonData(<<Comparison("g1", "a", <<"timeout", "">>)>>),
     FlatData(<<FlatTask("t", 0), FlatTask("t", 1)>>),
     OtherData}

\* the datasets of the pure-function specification: up to two groups, ids possibly
\* equal, every error value
PureDatasets ==
    {ComparisonData(<<Comparison("g1", "a", e1)>>) : e1 \in SeqsUpTo(ErrorValues, MaxPreds)}
    \cup {ComparisonData(<<Comparison("g1", "a", e1), Comparison(g, "b", e2)>>) :
            e1 \in SeqsUpTo(ErrorValues, MaxPreds), g \in {"g1", "g2"},
            e2 \in SeqsUpTo({"absent", "timeout"}, 1)}
    \cup {FlatData(<<>>), FlatData(<<FlatTask("t", 0), FlatTask("t", 1), FlatTask("t", 0)>>),
          OtherData, ComparisonData(<<>>)}

Seeds == 0..MaxSeed
OptSeeds == {None} \cup {<<s>> : s \in Seeds}

----------------------------------------------------------------------------
(* _load_data *)

RECURSIVE ExtractRenumbered(_, _, _)
ExtractRenumbered(comparison, k, n) ==
    IF k > Len(comparison.predictions) THEN <<>>
    ELSE LET prediction == comparison.predictions[k]
             transition ==
                 [transition_id |-> <<comparison.transition_id, n>>,
                  original_transition_id |-> comparison.transition_id,
                  prediction_index |-> n,
                  action |-> comparison.action,
                  input_materials |-> comparison.input_materials,
                  input_observations |-> comparison.input_observations,
                  prediction |-> prediction]
         IN IF ~Truthy(prediction.error)
            THEN <<transition>> \o ExtractRenumbered(comparison, k + 1, n + 1)
            ELSE ExtractRenumbered(comparison, k + 1, n)

\* a variant of ExtractPredictions that numbers the kept predictions 0, 1, ...
ExtractPredictionsRenumbered(comparison, k) == ExtractRenumbered(comparison, k, 0)

RECURSIVE ExtractPredictions(_, _)
\* the inner loop of _load_data over enumerate(comparison['predictions']), from
\* 1-based position k on
ExtractPredictions(comparison, k) ==
    IF k > Len(comparison.predictions) THEN <<>>
    ELSE LET prediction == comparison.predictions[k]
             i == k - 1
             transition ==
                 [transition_id |-> <<comparison.transition_id, i>>,
                  original_transition_id |-> comparison.transition_id,
                  prediction_index |-> i,
                  action |-> comparison.action,
                  input_materials |-> comparison.input_materials,
                  input_observations |-> comparison.input_observations,
                  prediction |-> prediction]
         IN (IF ~Truthy(prediction.error) THEN <<transition>> ELSE <<>>)
                \o ExtractPredictions(comparison, k + 1)

LoadData(d) ==
    IF "comparisons" \in d.keys
    THEN Concat([c \in 1..Len(d.comparisons) |-> ExtractPredictions(d.comparisons[c], 1)])
    ELSE d.transitions   \* data.get('transitions', [])

----------------------------------------------------------------------------
(* _randomize_transitions *)

\* The generator of the random module, reduced to a small state space: seeding
\* sets the state from the seed alone, each draw is a function of the state.
RngStates == 0..1
SeedRng(s) == s % 2
NextRng(r) == (r + 1) % 2
RandBelow(r, n) == r % n

RECURSIVE ShuffleFromNoSwap(_, _, _)
\* a variant of ShuffleFrom that assigns x[i] = x[j] without the exchange
ShuffleFromNoSwap(x, i, r) ==
    IF i < 1 THEN x
    ELSE LET j == RandBelow(r, i + 1)
             y == [x EXCEPT ![i + 1] = x[j + 1]]
         IN ShuffleFromNoSwap(y, i - 1, NextRng(r))

RECURSIVE ShuffleFrom(_, _, _)
\* random.shuffle: for i in reversed(range(1, len(x))): j = randbelow(i + 1);
\* x[i], x[j] = x[j], x[i]   (positions here are 1-based: i + 1, j + 1)
ShuffleFrom(x, i, r) ==
    IF i < 1 THEN x
    ELSE LET j == RandBelow(r, i + 1)
             y == [x EXCEPT ![i + 1] = x[j + 1], ![j + 1] = x[i + 1]]
         IN ShuffleFrom(y, i - 1, NextRng(r))

Shuffle(x, r) == ShuffleFrom(x, Len(x) - 1, r)

\* a variant of RandomizeTransitions that never seeds the generator
RandomizeTransitionsUnseeded(ts, seed, r) == Shuffle(ts, r)

\* r is the state of the process-wide generator when the method is entered
RandomizeTransitions(ts, seed, r) ==
    Shuffle(ts, IF seed # None THEN SeedRng(seed[1]) ELSE r)

----------------------------------------------------------------------------
(* the session file *)

\* self.data_file, the path given on the command line
DataFile == "transition_comparisons.json"

NoJson == [session_id |-> <<>>, random_seed |-> <<>>, start_time |-> 0,
           source_data_file |-> "", total_transitions |-> 0, validations |-> <<>>,
           last_updated |-> <<>>, completed_transitions |-> <<>>]

AbsentFile == [status |-> "absent", json |-> NoJson]
PartialFile == [status |-> "partial", json |-> NoJson]
JsonFile(j) == [status |-> "json", json |-> j]

\* a variant of InitialSessionData that counts the transitions before they are loaded
InitialSessionDataNoTotal(sid, seed, t, total) ==
    [session_id |-> sid, random_seed |-> seed, start_time |-> t,
     source_data_file |-> DataFile, total_transitions |-> 0, validations |-> <<>>,
     last_updated |-> None, completed_transitions |-> None]

\* session_data of _initialize_session_file; last_updated and completed_transitions
\* are keys the method does not write
InitialSessionData(sid, seed, t, total) ==
    [session_id |-> sid, random_seed |-> seed, start_time |-> t,
     source_data_file |-> DataFile, total_transitions |-> total, validations |-> <<>>,
     last_updated |-> None, completed_transitions |-> None]

\* session_data of _update_session_file, from the document read back from the file
UpdatedSessionData(old, validations, completed, t) ==
    [old EXCEPT !.validations = validations,
                !.last_updated = <<t>>,
                !.completed_transitions = <<Cardinality(completed)>>]

----------------------------------------------------------------------------
(* get_next_transition, get_progress *)

RECURSIVE FirstUncompleted(_, _, _)
FirstUncompleted(ts, k, completed) ==
    IF k > Len(ts) THEN NoTask
    ELSE IF ts[k].transition_id \notin completed THEN <<ts[k]>>
    ELSE FirstUncompleted(ts, k + 1, completed)

RECURSIVE LastUncompleted(_, _, _)
LastUncompleted(ts, k, completed) ==
    IF k < 1 THEN NoTask
    ELSE IF ts[k].transition_id \notin completed THEN <<ts[k]>>
    ELSE LastUncompleted(ts, k - 1, completed)

\* a variant of NextTransition that scans from the end
NextTransitionFromEnd(ts, completed) == LastUncompleted(ts, Len(ts), completed)

\* <<transition>> or NoTask (None)
NextTransition(ts, completed) == FirstUncompleted(ts, 1, completed)

GetProgress(ts, completed) ==
    [completed |-> Cardinality(completed),
     total |-> Len(ts),
     remaining |-> Len(ts) - Cardinality(completed)]

----------------------------------------------------------------------------
(* _build_material_lookup, _resolve_barcode_to_name, _enhance_transition_with_names *)

\* JSON values, tagged: a string, another scalar, a list, a dict (its items in
\* order, each [k, v])
Str(s) == [t |-> "str", v |-> s]
Num(n) == [t |-> "num", v |-> n]
List(xs) == [t |-> "list", v |-> xs]
Dict(kvs) == [t |-> "dict", v |-> kvs]
Item(k, v) == [k |-> k, v |-> v]

\* a material: its 'barcode' and 'name' keys, each <<>> when the key is absent
Material(barcode, name) == [barcode |-> barcode, name |-> name]

EmptyLookup == <<>>

RECURSIVE AddMaterials(_, _)
\* for material in materials: if 'barcode' in material and 'name' in material:
\*     self.material_lookup[material['barcode']] = material['name']
AddMaterials(lookup, materials) ==
    IF materials = <<>> THEN lookup
    ELSE LET material == Head(materials)
         IN AddMaterials(IF material.barcode # None /\ material.name # None
                         THEN (material.barcode[1] :> material.name[1]) @@ lookup
                         ELSE lookup,
                         Tail(materials))

\* transition.get('input_materials'), when truthy
InputMaterials(transition) ==
    IF "input_materials" \in DOMAIN transition THEN transition.input_materials ELSE <<>>

\* transition.get('prediction', {}).get('prediction', {}).get('new_materials', [])
NewMaterials(transition) ==
    IF /\ "prediction" \in DOMAIN transition
       /\ "prediction" \in DOMAIN transition.prediction
       /\ "new_materials" \in DOMAIN transition.prediction.prediction
    THEN transition.prediction.prediction.new_materials
    ELSE <<>>

RECURSIVE BuildFrom(_, _, _)
BuildFrom(lookup, ts, k) ==
    IF k > Len(ts) THEN lookup
    ELSE BuildFrom(AddMaterials(AddMaterials(lookup, InputMaterials(ts[k])),
                                NewMaterials(ts[k])),
                   ts, k + 1)

BuildMaterialLookup(ts) == BuildFrom(EmptyLookup, ts, 1)

RECURSIVE ResolveTopOnly(_, _)
\* a variant of ResolveBarcodeToName that does not descend into lists
ResolveTopOnly(value, lookup) ==
    IF value.t = "str"
    THEN IF value.v \in DOMAIN lookup THEN Str(lookup[value.v]) ELSE value
    ELSE IF value.t = "dict"
    THEN Dict([i \in 1..Len(value.v) |->
                 Item(value.v[i].k, ResolveTopOnly(value.v[i].v, lookup))])
    ELSE value

RECURSIVE ResolveBarcodeToName(_, _)
ResolveBarcodeToName(value, lookup) ==
    IF value.t = "str"
    THEN IF value.v \in DOMAIN lookup THEN Str(lookup[value.v]) ELSE value
    ELSE IF value.t = "list"
    THEN List([i \in 1..Len(value.v) |-> ResolveBarcodeToName(value.v[i], lookup)])
    ELSE IF value.t = "dict"
    THEN Dict([i \in 1..Len(value.v) |->
                 Item(value.v[i].k, ResolveBarcodeToName(value.v[i].v, lookup))])
    ELSE value

\* enhanced = transition.copy(); with 'action' and 'parameters' in it, the copy's
\* action is a copy whose 'parameters' and 'parameters_display' are both the
\* resolved parameters
EnhanceTransitionWithNames(transition, lookup) ==
    IF "action" \in DOMAIN transition /\ "parameters" \in DOMAIN transition.action
    THEN LET enhanced_params ==
                 [i \in 1..Len(transition.action.parameters) |->
                    Item(transition.action.parameters[i].k,
                         ResolveBarcodeToName(transition.action.parameters[i].v, lookup))]
         IN [transition EXCEPT !.action =
                ("parameters" :> enhanced_params) @@
                ("parameters_display" :> enhanced_params) @@
                transition.action]
    ELSE transition

----------------------------------------------------------------------------
(* writing the session file *)

WriteOutcomes == {"ok", "open_error", "interrupted"}

\* with open(self.session_file, 'w') as f: json.dump(doc, f, indent=2)
\* "ok": the document is written; "open_error": open raises, the file is as it was;
\* "interrupted": open has truncated the file and the dump does not finish
WriteFile(old, doc, outcome) ==
    IF outcome = "ok" THEN JsonFile(doc)
    ELSE IF outcome = "open_error" THEN old
    ELSE PartialFile

\* self.session_validations.append(validation_result): before the file is updated
ValidationsAfterSave(validations, validation_result) ==
    Append(validations, validation_result)

\* a variant of CompletedAfterSave that forgets what was completed before
CompletedAfterSaveOnly(completed, transition_id, returned) ==
    IF returned THEN {transition_id} ELSE completed

\* a variant of CompletedAfterSave that marks the id before the file is updated
CompletedAfterSaveAlways(completed, transition_id, returned) ==
    completed \cup {transition_id}

\* self.completed_transitions.add(transition_id): reached only when
\* _update_session_file has returned
CompletedAfterSave(completed, transition_id, returned) ==
    IF returned THEN completed \cup {transition_id} ELSE completed

\* _update_session_file: the new file, given the call's outcome; json.load raises
\* on a file that is no complete document and nothing is written
UpdateSessionFile(file, validations, completed, t, outcome) ==
    IF file.status # "json" THEN file
    ELSE WriteFile(file, UpdatedSessionData(file.json, validations, completed, t), outcome)

\* a variant of RestoredValidations that starts the resumed session with an empty list
RestoredValidationsEmpty(session_data) == <<>>

\* instance.session_validations = session_data.get('validations', [])
RestoredValidations(session_data) == session_data.validations

\* the ids restored by resume_from_session from the stored validations
RestoredCompleted(validations) ==
    {validations[k].transition_id : k \in 1..Len(validations)}

----------------------------------------------------------------------------
(* the session *)

Ids(ts) == {ts[k].transition_id : k \in 1..Len(ts)}

\* the ids a caller may send: those of the dataset and one that is in no dataset
CallerIds == Ids(LoadData(data)) \cup {BogusId}

Op(op, id, result) == [op |-> op, id |-> id, result |-> result]

Init ==
    /\ phase = "start"
    /\ data \in SessionDatasets
    /\ random_seed \in OptSeeds
    /\ session_id = None
    /\ transitions = <<>>
    /\ current_transitions = <<>>
    /\ completed_transitions = {}
    /\ session_validations = <<>>
    /\ session_file = AbsentFile
    /\ now = 0
    /\ last = Op("none", NoTask, "ok")
    /\ material_lookup = EmptyLookup
    /\ shown = None
    /\ created = None
    /\ judged = {}
    /\ answers = 0

\* the process ends: the in-memory state is gone
ProcessGone ==
    /\ phase' = "dead"
    /\ random_seed' = None
    /\ session_id' = None
    /\ transitions' = <<>>
    /\ current_transitions' = <<>>
    /\ completed_transitions' = {}
    /\ session_validations' = <<>>
    /\ material_lookup' = EmptyLookup

\* ValidationManager.__init__ (session_name is None): _load_data,
\* _randomize_transitions, _initialize_session_file
Construct(r, outcome) ==
    /\ phase = "start"
    /\ LET ts == LoadData(data)
           cur == RandomizeTransitions(ts, random_seed, r)
           doc == InitialSessionData(<<now>>, random_seed, now, Len(cur))
       IN /\ session_file' = WriteFile(session_file, doc, outcome)
          /\ IF outcome = "ok"
             THEN /\ phase' = "serving"
                  /\ session_id' = <<now>>
                  /\ transitions' = ts
                  /\ current_transitions' = cur
                  /\ material_lookup' = BuildMaterialLookup(ts)
                  /\ created' = <<[order |-> cur, seed |-> random_seed]>>
                  /\ UNCHANGED <<random_seed, completed_transitions, session_validations>>
             ELSE /\ ProcessGone
                  /\ UNCHANGED created
    /\ last' = Op("init", NoTask, outcome)
    /\ shown' = None
    /\ UNCHANGED <<data, now, judged, answers>>

\* ValidationManager.resume_from_session(session_file, data_file) in a new process;
\* every document the program writes has the key random_seed, so the default of
\* session_data.get('random_seed', 42) is not taken
Resume(r) ==
    /\ phase = "dead"
    /\ IF session_file.status = "json"
       THEN LET session_data == session_file.json
                ts == LoadData(data)
            IN /\ phase' = "serving"
               /\ random_seed' = session_data.random_seed
               /\ session_id' = session_data.session_id
               /\ transitions' = ts
               /\ current_transitions' = RandomizeTransitions(ts, session_data.random_seed, r)
               /\ material_lookup' = BuildMaterialLookup(ts)
               /\ session_validations' = RestoredValidations(session_data)
               /\ completed_transitions' = RestoredCompleted(RestoredValidations(session_data))
               /\ last' = Op("resume", NoTask, "ok")
       ELSE \* FileNotFoundError, or json.load raises
            /\ last' = Op("resume", NoTask, "error")
            /\ UNCHANGED <<phase, random_seed, session_id, transitions, current_transitions,
                           session_validations, completed_transitions, material_lookup>>
    /\ shown' = None
    /\ UNCHANGED <<data, session_file, now, created, judged, answers>>

\* get_next_transition
GetNext ==
    /\ phase = "serving"
    /\ LET t == NextTransition(current_transitions, completed_transitions)
           enhanced == IF t = NoTask THEN NoTask
                       ELSE <<EnhanceTransitionWithNames(t[1], material_lookup)>>
       IN /\ shown' = enhanced
          /\ last' = IF enhanced = NoTask THEN Op("next", NoTask, "none")
                     ELSE Op("next", enhanced[1].transition_id, "task")
    /\ UNCHANGED <<phase, data, random_seed, session_id, transitions, current_transitions,
                   completed_transitions, session_validations, session_file, now,
                   material_lookup, created, judged, answers>>

\* save_validation(transition_id, ...); outcome is that of _update_session_file:
\* "ok", "read_error" (the file is no complete document), "open_error", "dump_error"
\* (the write is interrupted, or raises, after open has truncated the file)
SaveValidation(transition_id, outcome) ==
    /\ phase = "serving"
    /\ now < MaxJudgments
    /\ IF session_file.status = "json"
       THEN outcome \in {"ok", "open_error", "dump_error"}
       ELSE outcome = "read_error"
    /\ LET validation_result == [transition_id |-> transition_id, timestamp |-> now + 1]
           validations == ValidationsAfterSave(session_validations, validation_result)
           write == IF outcome = "dump_error" THEN "interrupted" ELSE outcome
       IN /\ session_file' = UpdateSessionFile(session_file, validations,
                                               completed_transitions, now + 1, write)
          /\ session_validations' = validations
          /\ completed_transitions' =
                CompletedAfterSave(completed_transitions, transition_id, outcome = "ok")
    /\ now' = now + 1
    /\ judged' = IF outcome = "ok" THEN judged \cup {transition_id} ELSE judged
    /\ last' = Op("judge", transition_id, outcome)
    /\ shown' = None
    /\ UNCHANGED <<phase, data, random_seed, session_id, transitions, current_transitions,
                   material_lookup, created>>

\* a variant of CompletedAfterSkip that forgets what was completed before
CompletedAfterSkipOnly(completed, transition_id) == {transition_id}

\* a variant of CompletedAfterSkip that takes a completed id out again
CompletedAfterSkipToggle(completed, transition_id) ==
    IF transition_id \in completed
    THEN completed \ {transition_id}
    ELSE completed \cup {transition_id}

\* a variant of CompletedAfterSkip that marks nothing
CompletedAfterSkipNothing(completed, transition_id) == completed

\* manager.completed_transitions.add(transition_id)
CompletedAfterSkip(completed, transition_id) == completed \cup {transition_id}

\* the /skip handler
Skip(transition_id) ==
    /\ phase = "serving"
    /\ completed_transitions' = CompletedAfterSkip(completed_transitions, transition_id)
    /\ last' = Op("skip", NoTask,
                  IF transition_id \in completed_transitions THEN "again" ELSE "ok")
    /\ shown' = None
    /\ UNCHANGED <<phase, data, random_seed, session_id, transitions, current_transitions,
                   session_validations, session_file, now, material_lookup, created, judged>>

\* the process is stopped between two requests
Crash ==
    /\ phase = "serving"
    /\ ProcessGone
    /\ last' = Op("crash", NoTask, "ok")
    /\ shown' = None
    /\ UNCHANGED <<data, session_file, now, created, judged, answers>>

\* POST /validate and POST /skip from any caller, with any id
ValidateRequest(transition_id, outcome) ==
    SaveValidation(transition_id, outcome) /\ UNCHANGED answers

SkipRequest(transition_id) ==
    Skip(transition_id) /\ UNCHANGED answers

Next ==
    \/ \E r \in RngStates, outcome \in WriteOutcomes : Construct(r, outcome)
    \/ \E r \in RngStates : Resume(r)
    \/ GetNext
    \/ \E t \in CallerIds, outcome \in {"ok", "read_error", "open_error", "dump_error"} :
          ValidateRequest(t, outcome)
    \/ \E t \in CallerIds : SkipRequest(t)
    \/ Crash

Spec == Init /\ [][Next]_vars

----------------------------------------------------------------------------
(* The extractor and the order generator as functions of their inputs: the   *)
(* dataset and the seed are drawn from PureDatasets and OptSeeds, _load_data *)
(* is applied once and _randomize_transitions any number of times, each time *)
(* with the process-wide generator in an arbitrary state.                    *)

InitPure ==
    /\ phase = "start"
    /\ data \in PureDatasets
    /\ random_seed \in OptSeeds
    /\ session_id = None
    /\ transitions = <<>>
    /\ current_transitions = <<>>
    /\ completed_transitions = {}
    /\ session_validations = <<>>
    /\ session_file = AbsentFile
    /\ now = 0
    /\ last = Op("none", NoTask, "ok")
    /\ material_lookup = EmptyLookup
    /\ shown = None
    /\ created = None
    /\ judged = {}
    /\ answers = 0

PureLoad ==
    /\ phase = "start"
    /\ phase' = "loaded"
    /\ transitions' = LoadData(data)
    /\ last' = Op("load", NoTask, "ok")
    /\ UNCHANGED <<data, random_seed, session_id, current_transitions, completed_transitions,
                   session_validations, session_file, now, material_lookup, shown,
                   created, judged, answers>>

PureGenerate(r) ==
    /\ phase \in {"loaded", "ordered"}
    /\ phase' = "ordered"
    /\ current_transitions' = RandomizeTransitions(transitions, random_seed, r)
    /\ created' = IF created = None
                  THEN <<[order |-> current_transitions', seed |-> random_seed]>>
                  ELSE created
    /\ last' = Op("generate", NoTask, IF created = None THEN "first" ELSE "again")
    /\ UNCHANGED <<data, random_seed, session_id, transitions, completed_transitions,
                   session_validations, session_file, now, material_lookup, shown,
                   judged, answers>>

NextPure ==
    \/ PureLoad
    \/ \E r \in RngStates : PureGenerate(r)

SpecPure == InitPure /\ [][NextPure]_vars

----------------------------------------------------------------------------
(* A review without faults: the session is constructed, and every           *)
(* transition that get_next_transition returns is answered, with a judgment *)
(* whose file update succeeds or with a skip, before the next is asked for. *)

ReviewConstruct(r) == Construct(r, "ok")

ReviewNext ==
    /\ shown = None
    /\ GetNext

ReviewJudge ==
    /\ shown # None
    /\ SaveValidation(shown[1].transition_id, "ok")
    /\ answers' = answers + 1

ReviewSkip ==
    /\ shown # None
    /\ Skip(shown[1].transition_id)
    /\ answers' = answers + 1

NextReview ==
    \/ \E r \in RngStates : ReviewConstruct(r)
    \/ ReviewNext
    \/ ReviewJudge
    \/ ReviewSkip

SpecReview == Init /\ [][NextReview]_vars

----------------------------------------------------------------------------
(* Name resolution on its own: a dataset of one transition with materials   *)
(* and one nested action parameter is loaded, its lookup table built, and   *)
(* the transition served.                                                   *)

Leaves == {Str("BC1"), Str("water"), Num(1)}

RECURSIVE Values(_)
\* the JSON values of nesting depth d at most: lists of one or two elements,
\* dicts of one or two items, one of the keys being spelled like a barcode
Values(d) ==
    IF d = 0 THEN Leaves
    ELSE LET V == Values(d - 1)
         IN Leaves \cup {List(<<>>), Dict(<<>>)}
               \cup {List(<<x>>) : x \in V}
               \cup {List(<<a, x>>) : a \in Leaves, x \in V}
               \cup {Dict(<<Item(k, x)>>) : k \in {"BC1", "k"}, x \in V}
               \cup {Dict(<<Item("BC1", a), Item("k", x)>>) : a \in Leaves, x \in V}

\* input materials: none, one with barcode and name, one without a name
InputMaterialLists ==
    {<<>>, <<Material(<<"BC1">>, <<"salt">>)>>, <<Material(<<"BC1">>, None)>>}

\* predicted materials: none, one that names BC1 again, one whose name is spelled
\* like a barcode
NewMaterialLists ==
    {<<>>, <<Material(<<"BC1">>, <<"brine">>)>>, <<Material(<<"water">>, <<"BC1">>)>>}

NameTask(input_materials, new_materials, value) ==
    [transition_id |-> <<"t", 0>>, original_transition_id |-> "t", prediction_index |-> 0,
     action |-> [type |-> "mix",
                 parameters |-> <<Item("source", value), Item("amount", Num(1))>>],
     input_materials |-> input_materials, input_observations |-> <<>>,
     prediction |-> [error |-> "absent", prediction |-> [new_materials |-> new_materials]]]

NameDatasets ==
    {FlatData(<<NameTask(ims, nms, v)>>) :
        ims \in InputMaterialLists, nms \in NewMaterialLists, v \in Values(MaxDepth)}

InitNames ==
    /\ phase = "start"
    /\ data \in NameDatasets
    /\ random_seed \in OptSeeds
    /\ session_id = None
    /\ transitions = <<>>
    /\ current_transitions = <<>>
    /\ completed_transitions = {}
    /\ session_validations = <<>>
    /\ session_file = AbsentFile
    /\ now = 0
    /\ last = Op("none", NoTask, "ok")
    /\ material_lookup = EmptyLookup
    /\ shown = None
    /\ created = None
    /\ judged = {}
    /\ answers = 0

\* __init__ up to _randomize_transitions
NamesLoad(r) ==
    /\ phase = "start"
    /\ phase' = "loaded"
    /\ transitions' = LoadData(data)
    /\ material_lookup' = BuildMaterialLookup(transitions')
    /\ current_transitions' = RandomizeTransitions(transitions', random_seed, r)
    /\ last' = Op("load", NoTask, "ok")
    /\ UNCHANGED <<data, random_seed, session_id, completed_transitions, session_validations,
                   session_file, now, shown, created, judged, answers>>

\* get_next_transition
NamesNext ==
    /\ phase = "loaded"
    /\ LET t == NextTransition(current_transitions, completed_transitions)
       IN /\ shown' = <<EnhanceTransitionWithNames(t[1], material_lookup)>>
          /\ last' = Op("next", shown'[1].transition_id, "task")
    /\ UNCHANGED <<phase, data, random_seed, session_id, transitions, current_transitions,
                   completed_transitions, session_validations, session_file, now,
                   material_lookup, created, judged, answers>>

NextNames ==
    \/ \E r \in RngStates : NamesLoad(r)
    \/ NamesNext

SpecNames == InitNames /\ [][NextNames]_vars

----------------------------------------------------------------------------
(* Claims *)

Min(S) == CHOOSE m \in S : \A k \in S : m <= k

Uncompleted(ts, completed) == {k \in 1..Len(ts) : ts[k].transition_id \notin completed}

\* what next() is to return: the id at the earliest uncompleted position, and "none"
NextExpected(ts, completed) ==
    IF Uncompleted(ts, completed) = {}
    THEN Op("next", NoTask, "none")
    ELSE Op("next", ts[Min(Uncompleted(ts, completed))].transition_id, "task")

\* C1: next() returns the task at the earliest position of the order whose id is
\* not completed, returns "none remaining" exactly when every id of the order is
\* completed, and changes neither the completed set nor the judgment list.
C1_NextReturnsEarliestUncompleted ==
    [][last'.op = "next" =>
        /\ last' = NextExpected(current_transitions, completed_transitions)
        /\ (last'.result = "none") <=> (Ids(current_transitions) \subseteq completed_transitions)
        /\ completed_transitions' = completed_transitions
        /\ session_validations' = session_validations
        /\ session_file' = session_file]_vars

\* next() has jumped over a completed first position while a later one is open
C1_Witness ==
    /\ last.op = "next"
    /\ Len(current_transitions) >= 3
    /\ current_transitions[1].transition_id \in completed_transitions
    /\ last.id = current_transitions[2].transition_id
    /\ current_transitions[3].transition_id \notin completed_transitions

\* C2: a session resumed from the record has completed ids equal to the ids of the
\* stored judgment list, which are the ids J completed by record_judgment; next()
\* returns no task of J and progress().completed is |J|.
C2_ResumeRestoresJudged ==
    (last.op = "resume" /\ last.result = "ok") =>
        /\ completed_transitions = RestoredCompleted(session_file.json.validations)
        /\ completed_transitions = judged
        /\ GetProgress(current_transitions, completed_transitions).completed = Cardinality(judged)
        /\ LET t == NextTransition(current_transitions, completed_transitions)
           IN t # NoTask => t[1].transition_id \notin judged

FailedJudge(l) == l.op = "judge" /\ l.result # "ok"

\* C3: when the write fails during record_judgment the completed set is as before:
\* an id that was not completed is not completed afterwards, next() serves the
\* same task and progress() is unchanged.
C3_FailedWriteLeavesCompleted ==
    [][FailedJudge(last') =>
        /\ completed_transitions' = completed_transitions
        /\ (last'.id \notin completed_transitions => last'.id \notin completed_transitions')
        /\ NextTransition(current_transitions', completed_transitions')
             = NextTransition(current_transitions, completed_transitions)
        /\ GetProgress(current_transitions', completed_transitions')
             = GetProgress(current_transitions, completed_transitions)]_vars

\* a judgment of the task being served has failed and the task is served again
C3_Witness ==
    /\ FailedJudge(last)
    /\ NextTransition(current_transitions, completed_transitions) # NoTask
    /\ NextTransition(current_transitions, completed_transitions)[1].transition_id = last.id
    /\ completed_transitions # {}

\* C4: when the write fails during record_judgment the judgment is not recorded:
\* the in-memory judgment list is as before the call.
C4_FailedWriteNotRecorded ==
    FailedJudge(last) =>
        \A k \in 1..Len(session_validations) :
            session_validations[k] # [transition_id |-> last.id, timestamp |-> now]

\* C5: the completed count of every record written by record_judgment is the number
\* of distinct ids of the record's judgment list.
C5_StoredCountMatchesJudgments ==
    (session_file.status = "json" /\ session_file.json.completed_transitions # None) =>
        session_file.json.completed_transitions[1]
            = Cardinality(RestoredCompleted(session_file.json.validations))

\* C6: a read of the session file never yields an empty or partial document.
C6_FileNeverPartial ==
    session_file.status # "partial"

\* C7: once __init__ has returned, and as long as save_validation has not been
\* called, the file holds the session id, the number of extracted transitions and
\* an empty list of validations; a served session has a file.
C7_ColdStartRecord ==
    /\ phase = "serving" => session_file.status # "absent"
    /\ (created # None /\ now = 0) =>
          /\ session_file.status = "json"
          /\ session_file.json.session_id # None
          /\ phase = "serving" => session_file.json.session_id = session_id
          /\ session_file.json.total_transitions = Len(LoadData(data))
          /\ session_file.json.validations = <<>>

\* the process was stopped right after __init__, with transitions to serve
C7_Witness ==
    /\ last.op = "crash"
    /\ created # None
    /\ now = 0
    /\ Len(created[1].order) >= 2

\* C8: a session created with a seed and resumed from its record has the seed and,
\* position by position, the order it was created with.
C8_SeededResumeSameOrder ==
    (last.op = "resume" /\ last.result = "ok" /\ created[1].seed # None) =>
        /\ random_seed = created[1].seed
        /\ current_transitions = created[1].order

\* a seeded session of three transitions, not in dataset order, was resumed after
\* a judgment
C8_Witness ==
    /\ last.op = "resume"
    /\ last.result = "ok"
    /\ created[1].seed # None
    /\ Len(current_transitions) = 3
    /\ current_transitions # transitions
    /\ session_validations # <<>>

Count(seq, x) == Cardinality({k \in 1..Len(seq) : seq[k] = x})

IsPermutation(a, b) ==
    /\ Len(a) = Len(b)
    /\ \A x \in Range(a) \cup Range(b) : Count(a, x) = Count(b, x)

IdsOf(seq) == [k \in 1..Len(seq) |-> seq[k].transition_id]

\* C9: with a seed, every invocation of the order generator on the same list gives
\* the same sequence, whatever the state of the generator before; the result is a
\* permutation of the list: the same transitions and the same ids, each as often.
C9_GenerateDeterministicPermutation ==
    phase = "ordered" =>
        /\ random_seed # None => current_transitions = created[1].order
        /\ IsPermutation(current_transitions, transitions)
        /\ IsPermutation(IdsOf(current_transitions), IdsOf(transitions))

\* the generator ran a second time on three transitions and reordered them
C9_Witness ==
    /\ phase = "ordered"
    /\ last.result = "again"
    /\ random_seed # None
    /\ Len(transitions) >= 3
    /\ current_transitions # transitions

\* the claim's "error marker": an error value that is not empty
CarriesErrorMarker(prediction) == prediction.error \notin {"absent", ""}

\* the (group, prediction) positions of a dataset, 1-based
Positions(d) ==
    UNION {{<<c, k>> : k \in 1..Len(d.comparisons[c].predictions)} :
             c \in 1..Len(d.comparisons)}

\* C10: from a dataset of comparison groups, exactly one transition is extracted
\* for each prediction without error marker and none for one with it; its id is
\* the group's id with the prediction's index in the group, its payload that
\* prediction.
C10_ExtractOnePerGoodPrediction ==
    (phase # "start" /\ "comparisons" \in data.keys) =>
        /\ \A ck \in Positions(data) :
             LET comparison == data.comparisons[ck[1]]
                 prediction == comparison.predictions[ck[2]]
                 from == {j \in 1..Len(transitions) : transitions[j].prediction = prediction}
             IN IF CarriesErrorMarker(prediction)
                THEN from = {}
                ELSE /\ Cardinality(from) = 1
                     /\ \A j \in from :
                          /\ transitions[j].transition_id = <<comparison.transition_id, ck[2] - 1>>
                          /\ transitions[j].original_transition_id = comparison.transition_id
                          /\ transitions[j].action = comparison.action
        /\ \A j \in 1..Len(transitions) :
             \E ck \in Positions(data) :
                transitions[j].prediction = data.comparisons[ck[1]].predictions[ck[2]]

\* a good prediction after an erroring one keeps its index
C10_Witness ==
    /\ phase = "loaded"
    /\ "comparisons" \in data.keys
    /\ Len(data.comparisons) = 2
    /\ Len(data.comparisons[1].predictions) = 2
    /\ data.comparisons[1].predictions[1].error = "timeout"
    /\ data.comparisons[1].predictions[2].error = ""
    /\ Len(transitions) = 2

\* C11: a dataset with neither the 'comparisons' nor the 'transitions' key makes
\* the construction fail: no session is served and no session file is written.
C11_UnknownShapeRejected ==
    (data.keys \cap {"comparisons", "transitions"} = {}) =>
        /\ phase # "serving"
        /\ session_file.status = "absent"

\* C12: a skip of an id that is completed already leaves the completed set, and
\* with it progress(), as they were.
C12_SkipIdempotent ==
    [][\A t \in CallerIds :
          (Skip(t) /\ t \in completed_transitions) =>
              /\ completed_transitions' = completed_transitions
              /\ GetProgress(current_transitions', completed_transitions')
                   = GetProgress(current_transitions, completed_transitions)]_vars

\* the last request was a skip of an id that was completed already, and every
\* completed id is the id of a task with a judgment
C12_Witness ==
    /\ last.op = "skip"
    /\ last.result = "again"
    /\ completed_transitions # {}
    /\ completed_transitions \subseteq judged
    /\ completed_transitions \subseteq Ids(current_transitions)

\* C13: a skip only adds its id to the completed set: the judgment list, the order
\* and the session file are as before; a resumed session has completed exactly the
\* ids of the stored judgments, so an id that was only skipped is open again.
C13_SkipOnlyMarksInMemory ==
    [][/\ \A t \in CallerIds :
             Skip(t) =>
                /\ completed_transitions' = completed_transitions \cup {t}
                /\ session_validations' = session_validations
                /\ current_transitions' = current_transitions
                /\ transitions' = transitions
                /\ session_file' = session_file
       /\ (last'.op = "resume" /\ last'.result = "ok") =>
             \A t \in Ids(current_transitions') :
                (\A k \in 1..Len(session_file'.json.validations) :
                    session_file'.json.validations[k].transition_id # t) =>
                    /\ t \notin completed_transitions'
                    /\ NextTransition(current_transitions', completed_transitions') # NoTask]_vars

\* a resumed session that serves a task, from a record with one judgment and a
\* completed count of three: three ids had been skipped when the judgment was
\* written, two of them at least ids of other tasks, and none of them is
\* completed now
C13_Witness ==
    /\ last.op = "resume"
    /\ last.result = "ok"
    /\ Len(session_file.json.validations) = 1
    /\ session_file.json.completed_transitions = <<3>>
    /\ Cardinality(completed_transitions) = 1
    /\ NextTransition(current_transitions, completed_transitions) # NoTask

\* the value of the 'source' parameter of a transition
Source(transition) == transition.action.parameters[1].v

\* C14: the transition that next() returns has the action parameters of the
\* extracted transition, identifiers unresolved; the resolved copy is under
\* 'parameters_display' only.
C14_ServedKeepsRawParameters ==
    shown # None =>
        /\ shown[1].action.parameters = current_transitions[1].action.parameters
        /\ shown[1].action.parameters_display
             = [i \in 1..Len(current_transitions[1].action.parameters) |->
                  Item(current_transitions[1].action.parameters[i].k,
                       ResolveBarcodeToName(current_transitions[1].action.parameters[i].v,
                                            material_lookup))]

\* the string scalars of a value
RECURSIVE StringsOf(_)
StringsOf(x) ==
    IF x.t = "str" THEN {x.v}
    ELSE IF x.t \in {"list", "dict"}
    THEN UNION {StringsOf(IF x.t = "list" THEN x.v[i] ELSE x.v[i].v) : i \in 1..Len(x.v)}
    ELSE {}

\* y is x with the same shape and keys, every string scalar in the table replaced
\* by its entry and everything else as it was
RECURSIVE SameShapeResolved(_, _, _)
SameShapeResolved(x, y, table) ==
    IF x.t = "str"
    THEN y = (IF x.v \in DOMAIN table THEN Str(table[x.v]) ELSE x)
    ELSE IF x.t = "list"
    THEN /\ y.t = "list"
         /\ Len(y.v) = Len(x.v)
         /\ \A i \in 1..Len(x.v) : SameShapeResolved(x.v[i], y.v[i], table)
    ELSE IF x.t = "dict"
    THEN /\ y.t = "dict"
         /\ Len(y.v) = Len(x.v)
         /\ \A i \in 1..Len(x.v) :
               /\ y.v[i].k = x.v[i].k
               /\ SameShapeResolved(x.v[i].v, y.v[i].v, table)
    ELSE y = x

\* C15: the resolved value has the shape, the lengths, the order and the keys of
\* the value; each string that is a key of the table is replaced by its entry,
\* every other scalar is unchanged; a value with no known identifier is equal to
\* its resolution.
C15_ResolvePreservesStructure ==
    shown # None =>
        LET x == Source(current_transitions[1])
            y == shown[1].action.parameters_display[1].v
        IN /\ SameShapeResolved(x, y, material_lookup)
           /\ (StringsOf(x) \cap DOMAIN material_lookup = {}) => y = x

\* a known barcode inside a list inside a dict, beside a dict key spelled like it,
\* has been replaced by its name
C15_Witness ==
    /\ shown # None
    /\ material_lookup = ("BC1" :> "salt")
    /\ Source(current_transitions[1])
         = Dict(<<Item("BC1", Num(1)), Item("k", List(<<Str("water"), Str("BC1")>>))>>)
    /\ shown[1].action.parameters_display[1].v
         = Dict(<<Item("BC1", Num(1)), Item("k", List(<<Str("water"), Str("salt")>>))>>)

\* C16: in a session in which no uncompleted task remains, no judgment, skip or
\* next() brings one back: every later next() returns "none remaining" too.
C16_ExhaustedIsTerminal ==
    [][(/\ phase = "serving"
        /\ NextTransition(current_transitions, completed_transitions) = NoTask
        /\ last'.op \in {"next", "judge", "skip"}) =>
           /\ NextTransition(current_transitions', completed_transitions') = NoTask
           /\ (last'.op = "next" => last'.result = "none")]_vars

\* next() has returned "none remaining" in a session of three tasks in which
\* judgments were recorded and an id of no task was marked
C16_Witness ==
    /\ last = Op("next", NoTask, "none")
    /\ Len(current_transitions) = 3
    /\ Len(session_validations) = MaxJudgments
    /\ BogusId \in completed_transitions

\* C17: when every served task is answered with a successful judgment or a skip
\* of its id, each answer completes one more task, no task is served twice, and
\* next() returns "none remaining" exactly when len(ordered_tasks) answers were
\* given; progress() is then {completed: total, total: total, remaining: 0}.
C17_ExhaustedAfterTotalAnswers ==
    phase = "serving" =>
        /\ answers = Cardinality(completed_transitions)
        /\ answers <= Len(current_transitions)
        /\ (NextTransition(current_transitions, completed_transitions) = NoTask)
              <=> (answers = Len(current_transitions))
        /\ shown # None => shown[1].transition_id \notin completed_transitions
        /\ (answers = Len(current_transitions)) =>
              GetProgress(current_transitions, completed_transitions)
                 = [completed |-> Len(current_transitions),
                    total |-> Len(current_transitions),
                    remaining |-> 0]

\* three tasks were answered, by judgments and by a skip, and next() has returned
\* "none remaining"
C17_Witness ==
    /\ last = Op("next", NoTask, "none")
    /\ answers = 3
    /\ Len(current_transitions) = 3
    /\ Len(session_validations) = 2

\* C18: the order of a session is the order it was created with, at every moment
\* of every process that serves it, whether the session has a seed or not.
C18_OrderNeverChanges ==
    (phase = "serving" /\ created # None) =>
        current_transitions = created[1].order

IsPrefix(a, b) ==
    /\ Len(a) <= Len(b)
    /\ \A k \in 1..Len(a) : a[k] = b[k]

\* C19: each document written to the session file has the judgments of the
\* document before it as a prefix of its own, and the session_id, random_seed,
\* start_time and source_data_file of that document.
C19_StoredJudgmentsAppendOnly ==
    [][(session_file.status = "json" /\ session_file'.status = "json") =>
          /\ IsPrefix(session_file.json.validations, session_file'.json.validations)
          /\ session_file'.json.session_id = session_file.json.session_id
          /\ session_file'.json.random_seed = session_file.json.random_seed
          /\ session_file'.json.start_time = session_file.json.start_time
          /\ session_file'.json.source_data_file = session_file.json.source_data_file]_vars

\* a second judgment has been written behind the first, which was made one tick
\* after the start of the session
C19_Witness ==
    /\ last.op = "judge"
    /\ last.result = "ok"
    /\ session_file.status = "json"
    /\ Len(session_file.json.validations) = 2
    /\ session_file.json.validations[1].timestamp = session_file.json.start_time + 1
    /\ session_file.json.source_data_file = DataFile

\* C20: whatever ids the callers send, the completed ids are ids of the order, so
\* 0 <= completed <= total, remaining >= 0, and remaining = 0 exactly when next()
\* returns "none remaining".
C20_ProgressInRange ==
    phase = "serving" =>
        LET progress == GetProgress(current_transitions, completed_transitions)
        IN /\ completed_transitions \subseteq Ids(current_transitions)
           /\ 0 <= progress.completed
           /\ progress.completed <= progress.total
           /\ progress.remaining = progress.total - progress.completed
           /\ progress.remaining >= 0
           /\ (progress.remaining = 0)
                 <=> (NextTransition(current_transitions, completed_transitions) = NoTask)

====
